---- MODULE Spec2Model ----
(***************************************************************************)
(* Model of keep-alive.py: the condition checks of SystemConditions, the   *)
(* start/stop/quit handlers of KeepAliveApp (run on the tray's UI thread)  *)
(* and the keep_alive_loop worker threads they launch.                     *)
(*                                                                         *)
(* Granularity: one step per statement that reads or writes shared state   *)
(* (self.running, self.thread, self.icon), presses the key, prints or      *)
(* blocks; the platform queries that follow such a statement and touch no  *)
(* shared state belong to its step.  The platform (clock, battery,         *)
(* network) is an input: every query draws the value the platform has at   *)
(* that instant, so two queries of one tick may see different values.      *)
(* Time is not counted: time.sleep is a begin step and a wake step, and    *)
(* Thread.join(timeout=1) returns whether or not the joined thread has     *)
(* finished.                                                               *)
(***************************************************************************)
EXTENDS Integers, Sequences, FiniteSets, TLC

\* ---------------------------------------------------------------- bounds
\* Loop threads one run may create (each start() that takes effect makes one).
MaxThreads == 2

\* ------------------------------------------------------ program constants
WORK_HOURS_START == 8
WORK_HOURS_END == 17
AF_INET == 2

\* Python strings are modelled as sequences of one-character strings.
SKIP_INTERFACES ==
  << <<"l","o">>,
     <<"w","i","f","i">>,
     <<"w","l","a","n">>,
     <<"w","i","r","e","l","e","s","s">>,
     <<"b","l","u","e","t","o","o","t","h">>,
     <<"l","o","c","a","l"," ","a","r","e","a"," ",
       "c","o","n","n","e","c","t","i","o","n">> >>

ETHERNET_PATTERNS ==
  << <<"e","t","h","e","r","n","e","t">>,
     <<"e","t","h">>,
     <<"e","n">> >>

\* ---------------------------------------------------------- str helpers
UpperCase == <<"A","B","C","D","E","F","G","H","I","J","K","L","M",
               "N","O","P","Q","R","S","T","U","V","W","X","Y","Z">>
LowerCase == <<"a","b","c","d","e","f","g","h","i","j","k","l","m",
               "n","o","p","q","r","s","t","u","v","w","x","y","z">>

\* str.lower(), one character
LowerChar(c) ==
  IF \E i \in 1..26 : UpperCase[i] = c
  THEN LowerCase[CHOOSE i \in 1..26 : UpperCase[i] = c]
  ELSE c

\* str.lower()
Lower(s) == [i \in 1..Len(s) |-> LowerChar(s[i])]

\* str.startswith(p)
StartsWith(s, p) == Len(p) <= Len(s) /\ SubSeq(s, 1, Len(p)) = p

\* p in s
Contains(s, p) ==
  \E i \in 1..(Len(s) - Len(p) + 1) : SubSeq(s, i, i + Len(p) - 1) = p

\* ------------------------------------------------------ SystemConditions
is_work_hoursInclusiveEnd(current_hour) ==
  WORK_HOURS_START <= current_hour /\ current_hour <= WORK_HOURS_END

is_work_hours(current_hour) ==
  WORK_HOURS_START <= current_hour /\ current_hour < WORK_HOURS_END

\* battery: what psutil.sensors_battery() does: "error" (raises), "none" (no
\* battery), "plugged" / "unplugged" (a battery, with its power_plugged flag).
is_on_ac_powerFailClosed(battery) ==
  CASE battery = "error"     -> FALSE
    [] battery = "none"      -> TRUE
    [] battery = "plugged"   -> TRUE
    [] battery = "unplugged" -> FALSE

is_on_ac_power(battery) ==
  CASE battery = "error"     -> TRUE
    [] battery = "none"      -> TRUE
    [] battery = "plugged"   -> TRUE
    [] battery = "unplugged" -> FALSE

_should_skip_interface(interface_name) ==
  LET name_lower == Lower(interface_name)
  IN  \E k \in 1..Len(SKIP_INTERFACES) : Contains(name_lower, SKIP_INTERFACES[k])

_is_ethernet_interface(interface_name) ==
  LET name_lower == Lower(interface_name)
  IN  \E k \in 1..Len(ETHERNET_PATTERNS) :
        \/ StartsWith(name_lower, ETHERNET_PATTERNS[k])
        \/ Contains(name_lower, ETHERNET_PATTERNS[k])

AddrIsValidNoApipa(addr) ==
  /\ addr.family = AF_INET
  /\ addr.address # <<>>
  /\ ~StartsWith(addr.address, <<"1","2","7",".">>)
  /\ addr.address # <<"0",".","0",".","0",".","0">>

\* One address of net_addrs[name]: [family, address]; address <<>> is the
\* empty string.
AddrIsValid(addr) ==
  /\ addr.family = AF_INET
  /\ addr.address # <<>>
  /\ ~StartsWith(addr.address, <<"1","2","7",".">>)
  /\ ~StartsWith(addr.address, <<"1","6","9",".","2","5","4",".">>)
  /\ addr.address # <<"0",".","0",".","0",".","0">>

\* An interface is [name, isup, inAddrs, addrs]: its entry of net_if_stats,
\* whether net_if_addrs has the name, and its address list.
_interface_has_valid_connection(if) ==
  IF ~if.isup THEN FALSE
  ELSE IF ~if.inAddrs THEN FALSE
  ELSE \E k \in 1..Len(if.addrs) : AddrIsValid(if.addrs[k])

\* The for loop of has_wired_ethernet_connection from interface i on.
RECURSIVE ScanInterfaces(_, _)
ScanInterfaces(ifs, i) ==
  IF i > Len(ifs) THEN FALSE
  ELSE IF _should_skip_interface(ifs[i].name) THEN ScanInterfaces(ifs, i + 1)
  ELSE IF /\ _is_ethernet_interface(ifs[i].name)
          /\ _interface_has_valid_connection(ifs[i])
       THEN TRUE
  ELSE ScanInterfaces(ifs, i + 1)

has_wired_ethernet_connectionFailOpen(net) ==
  IF net.fail THEN TRUE ELSE ScanInterfaces(net.ifs, 1)

\* net: [fail, ifs]; fail: psutil.net_if_stats() or net_if_addrs() raises.
has_wired_ethernet_connection(net) ==
  IF net.fail THEN FALSE ELSE ScanInterfaces(net.ifs, 1)

\* ------------------------------------------------------- platform inputs
\* Local hours the clock is read at: both ends of the work-hour window.
Hours == {WORK_HOURS_START - 1, WORK_HOURS_START,
          WORK_HOURS_END - 1, WORK_HOURS_END}

Batteries == {"error", "none", "plugged", "unplugged"}

Addr4(a) == [family |-> AF_INET, address |-> a]
Iface(n, up, as) == [name |-> n, isup |-> up, inAddrs |-> TRUE, addrs |-> as]

Eth0Up ==
  Iface(<<"e","t","h","0">>, TRUE,
        << Addr4(<<"1","9","2",".","1","6","8",".","1",".","5">>) >>)
Wlan0Up ==
  Iface(<<"w","l","a","n","0">>, TRUE,
        << Addr4(<<"1","0",".","0",".","0",".","7">>) >>)
En1LinkLocal ==
  Iface(<<"e","n","1">>, TRUE,
        << Addr4(<<"1","6","9",".","2","5","4",".","1",".","1">>) >>)
LoopbackUp ==
  Iface(<<"l","o">>, TRUE, << Addr4(<<"1","2","7",".","0",".","0",".","1">>) >>)

\* What the network enumeration may return at a query.
Nets ==
  { [fail |-> TRUE,  ifs |-> <<>>],
    [fail |-> FALSE, ifs |-> <<LoopbackUp, Eth0Up>>],
    [fail |-> FALSE, ifs |-> <<LoopbackUp, Wlan0Up>>],
    [fail |-> FALSE, ifs |-> <<En1LinkLocal, Wlan0Up>>] }

\* ---- inputs of the direct calls
MaxIfs == 2

HoursOfDay == 0..23

IfNames ==
  { <<"e","t","h","0">>, <<"w","l","a","n","0">>, <<"e","n","1">>,
    <<"E","t","h","e","r","n","e","t">>,
    <<"W","i","-","F","i">>,
    <<"w","l","a","n","-","e","t","h","0">> }

Routable == Addr4(<<"1","9","2",".","1","6","8",".","1",".","5">>)
AddrLists ==
  { <<>>,
    << Routable >>,
    << Addr4(<<"1","2","7",".","0",".","0",".","1">>) >>,
    << Addr4(<<"1","6","9",".","2","5","4",".","1",".","1">>) >>,
    << Addr4(<<"0",".","0",".","0",".","0">>) >>,
    << Addr4(<<>>) >>,
    << [family |-> 10, address |-> <<"f","e","8","0",":",":","1">>] >>,
    << Addr4(<<"1","2","7",".","0",".","0",".","1">>), Routable >> }

IfEntries ==
  {Iface(n, TRUE, as) : n \in IfNames, as \in AddrLists}
    \cup {Iface(n, FALSE, << Routable >>) : n \in IfNames}
    \cup {[name |-> n, isup |-> TRUE, inAddrs |-> FALSE, addrs |-> <<>>] :
            n \in IfNames}

Enumerations ==
  {[fail |-> TRUE, ifs |-> <<>>]}
    \cup {[fail |-> FALSE, ifs |-> ifs] :
            ifs \in UNION {[1..k -> IfEntries] : k \in 0..MaxIfs}}

\* The platform as one run of the three queries sees it.
Platforms == [hour : Hours, battery : Batteries, net : Nets]

\* ---------------------------------------------------------- KeepAliveApp
all_conditions_met(p) ==
  /\ is_work_hours(p.hour)
  /\ is_on_ac_power(p.battery)
  /\ has_wired_ethernet_connection(p.net)

get_failed_conditions(p) ==
  (IF ~is_work_hours(p.hour) THEN <<"Outside Work Hours">> ELSE <<>>)
  \o (IF ~is_on_ac_power(p.battery) THEN <<"On Battery">> ELSE <<>>)
  \o (IF ~has_wired_ethernet_connection(p.net) THEN <<"No Ethernet">> ELSE <<>>)

\* The line _log_skip_reason prints ("nothing": no branch is taken).
_log_skip_reason(p) ==
  IF ~is_work_hours(p.hour) THEN "Outside work hours"
  ELSE IF ~is_on_ac_power(p.battery) THEN "Running on battery power"
  ELSE IF ~has_wired_ethernet_connection(p.net) THEN "No wired ethernet connection"
  ELSE "nothing"

\* What one tick's evaluation of the conditions found: "met", or the first
\* unmet condition in the order work hours, power, ethernet.
FirstUnmet(p) ==
  IF ~is_work_hours(p.hour) THEN "work hours"
  ELSE IF ~is_on_ac_power(p.battery) THEN "power"
  ELSE IF ~has_wired_ethernet_connection(p.net) THEN "ethernet"
  ELSE "met"

\* The results the calls of the loop can get from the platform: each call
\* queries the platform afresh.
\* battery: what sensors_battery() did, "unread" if the and-chain of
\* all_conditions_met stopped before it; netFail: the network enumeration
\* was reached and raised.
Read228(p) ==
  [met     |-> all_conditions_met(p),
   cause   |-> FirstUnmet(p),
   battery |-> IF is_work_hours(p.hour) THEN p.battery ELSE "unread",
   netFail |-> /\ is_work_hours(p.hour)
               /\ is_on_ac_power(p.battery)
               /\ p.net.fail]
Reads228 == {Read228(p) : p \in Platforms}
Reads232 == {_log_skip_reason(p) : p \in Platforms}
Reads281 == {all_conditions_met(p) : p \in Platforms}
Reads284 == {get_failed_conditions(p) : p \in Platforms}

\* The same results while all three conditions hold.
GoodPlatforms == {p \in Platforms : all_conditions_met(p)}

\* The same results on a laptop at its desk during work hours whose power
\* cord comes and goes: one condition fails now and then.
FlakyPlatforms ==
  {p \in Platforms : /\ is_work_hours(p.hour)
                      /\ has_wired_ethernet_connection(p.net)
                      /\ p.battery \in {"plugged", "unplugged"}}
FlakyReads228 == {Read228(p) : p \in FlakyPlatforms}
FlakyReads232 == {_log_skip_reason(p) : p \in FlakyPlatforms}
FlakyReads281 == {all_conditions_met(p) : p \in FlakyPlatforms}
FlakyReads284 == {get_failed_conditions(p) : p \in FlakyPlatforms}
GoodReads228 == {Read228(p) : p \in GoodPlatforms}
GoodReads232 == {_log_skip_reason(p) : p \in GoodPlatforms}
GoodReads281 == {all_conditions_met(p) : p \in GoodPlatforms}
GoodReads284 == {get_failed_conditions(p) : p \in GoodPlatforms}

\* ------------------------------------------------------------------ state
VARIABLES
  running,     \* self.running
  thread,      \* self.thread: 0 is None, else the id of the stored Thread
  icon,        \* self.icon: NoIcon is None, else what the tray shows
  iconStops,   \* calls of self.icon.stop() so far
  nThreads,    \* Thread objects created so far
  pc,          \* pc[t]: the line loop thread t is at
  st,          \* st[t]: the status update_icon of thread t is about to write
  tick,        \* tick[t]: what thread t has done in its current tick
  stopped,     \* stopped[t]: stop() took effect while t was alive; and t has
               \* since finished a sleep
  sleepFresh,  \* sleepFresh[t]: no key was pressed since t's sleep began
  recentPress, \* a key was pressed in this run and no sleep that began after
               \* it has ended: less than one update period ago
  uiPc,        \* the line the UI thread is at
  uiOp,        \* the handler the UI thread runs, or ran last
  uiNoop,      \* that handler found nothing to do
  uiSt,        \* the status update_icon of the UI thread is about to write
  world,       \* the platform: "any", or "good" once all three conditions
               \* hold and the key simulation works, from then on
  probe        \* a condition function applied to one input, outside any run
               \* of the application: [fn, in, out]

vars == <<running, thread, icon, iconStops, nThreads, pc, st, tick,
          stopped, sleepFresh, recentPress, uiPc, uiOp, uiNoop, uiSt,
          world, probe>>

Threads == 1..MaxThreads

NoIcon == [status |-> "none", failed |-> <<>>]
StatusStopped == [status |-> "stopped", failed |-> <<>>]
StatusActive == [status |-> "active", failed |-> <<>>]
StatusPaused(failed_conditions) ==
  [status |-> "paused", failed |-> failed_conditions]

\* tick[t]: open from the loop's test of self.running to its update_icon;
\* cause: what line 228 found; presses: calls of simulate_key_press;
\* keyErr: that call raised; logged: the line the tick printed; battery,
\* netFail: what the queries of line 228 did, kept until the tick acts on
\* its result.
NoTick == [open |-> FALSE, cause |-> "none", presses |-> 0,
           keyErr |-> FALSE, logged |-> "none",
           battery |-> "unread", netFail |-> FALSE]

\* What the platform queries of the loop and of update_icon may return in
\* the world as it is.
World228 ==
  CASE world = "good"  -> GoodReads228
    [] world = "flaky" -> FlakyReads228
    [] OTHER           -> Reads228
World232 ==
  CASE world = "good"  -> GoodReads232
    [] world = "flaky" -> FlakyReads232
    [] OTHER           -> Reads232
World281 ==
  CASE world = "good"  -> GoodReads281
    [] world = "flaky" -> FlakyReads281
    [] OTHER           -> Reads281
World284 ==
  CASE world = "good"  -> GoodReads284
    [] world = "flaky" -> FlakyReads284
    [] OTHER           -> Reads284
\* Whether pyautogui.press may return normally (TRUE) or raise (FALSE): it
\* may raise only where the platform is unconstrained.
WorldKey == IF world = "any" THEN BOOLEAN ELSE {TRUE}

\* _get_icon_status, given self.running and what its two queries of the
\* platform return.
_get_icon_status(run, met, failed_conditions) ==
  IF ~run THEN StatusStopped
  ELSE IF met THEN StatusActive
  ELSE StatusPaused(failed_conditions)

\* probe: one direct call of a SystemConditions function: the function, what
\* the platform gives it, what it returned, whether it has returned.
NoProbe == [fn |-> "none", in |-> "none", out |-> FALSE, applied |-> FALSE]

\* t has been started and has neither returned nor died.
Alive(t) == pc[t] \notin {"new", "done", "dead"}

\* KeepAliveApp.__init__
Init ==
  /\ running = FALSE
  /\ thread = 0
  /\ icon = NoIcon
  /\ iconStops = 0
  /\ nThreads = 0
  /\ pc = [t \in Threads |-> "new"]
  /\ st = [t \in Threads |-> NoIcon]
  /\ tick = [t \in Threads |-> NoTick]
  /\ stopped = [t \in Threads |-> "no"]
  /\ sleepFresh = [t \in Threads |-> FALSE]
  /\ recentPress = FALSE
  /\ uiPc = "init"
  /\ uiOp = "none"
  /\ uiNoop = FALSE
  /\ uiSt = NoIcon
  /\ world = "any"
  /\ probe = NoProbe

\* ------------------------------------------------ keep_alive_loop, thread t
\* The return of keep_alive_loop.
LoopReturn(t) ==
  /\ pc' = [pc EXCEPT ![t] = "done"]
  /\ tick' = [tick EXCEPT ![t] = NoTick]
  /\ stopped' = [stopped EXCEPT ![t] = "no"]

\* while self.running:
Loop224(t) ==
  /\ pc[t] = "l224"
  /\ IF running
     THEN /\ pc' = [pc EXCEPT ![t] = "l225"]
          /\ UNCHANGED <<tick, stopped>>
     ELSE LoopReturn(t)
  /\ UNCHANGED <<running, thread, icon, iconStops, nThreads, st,
                 sleepFresh, recentPress, uiPc, uiOp, uiNoop, uiSt>>
  /\ UNCHANGED <<world, probe>>

\* if not self.running: break; if self.all_conditions_met():
Loop225(t) ==
  /\ pc[t] = "l225"
  /\ IF ~running
     THEN LoopReturn(t)
     ELSE /\ \E r \in World228 :
               /\ tick' = [tick EXCEPT ![t] =
                             [NoTick EXCEPT !.open = TRUE, !.cause = r.cause,
                                            !.battery = r.battery,
                                            !.netFail = r.netFail]]
               /\ pc' = [pc EXCEPT ![t] = IF r.met THEN "l229" ELSE "l232"]
          /\ UNCHANGED stopped
  /\ UNCHANGED <<running, thread, icon, iconStops, nThreads, st,
                 sleepFresh, recentPress, uiPc, uiOp, uiNoop, uiSt>>
  /\ UNCHANGED <<world, probe>>

\* simulate_key_press(); print(... key pressed ...).  pyautogui.press may
\* raise (ok = FALSE): nothing catches it and the thread dies.
Loop229(t) ==
  /\ pc[t] = "l229"
  /\ \E ok \in WorldKey :
       IF ok
       THEN /\ tick' = [tick EXCEPT ![t].presses = @ + 1,
                                    ![t].logged = "key pressed",
                                    ![t].battery = "unread"]
            /\ pc' = [pc EXCEPT ![t] = "l234"]
            /\ UNCHANGED stopped
       ELSE /\ tick' = [tick EXCEPT ![t].presses = @ + 1,
                                    ![t].keyErr = TRUE,
                                    ![t].battery = "unread"]
            /\ pc' = [pc EXCEPT ![t] = "dead"]
            /\ stopped' = [stopped EXCEPT ![t] = "no"]
  /\ recentPress' = TRUE
  /\ sleepFresh' = [u \in Threads |-> FALSE]
  /\ UNCHANGED <<running, thread, icon, iconStops, nThreads, st,
                 uiPc, uiOp, uiNoop, uiSt>>
  /\ UNCHANGED <<world, probe>>

\* else: self._log_skip_reason()
Loop232(t) ==
  /\ pc[t] = "l232"
  /\ \E line \in World232 :
       tick' = [tick EXCEPT ![t].logged = line,
                            ![t].battery = "unread",
                            ![t].netFail = FALSE]
  /\ pc' = [pc EXCEPT ![t] = "l234"]
  /\ UNCHANGED <<running, thread, icon, iconStops, nThreads, st, stopped,
                 sleepFresh, recentPress, uiPc, uiOp, uiNoop, uiSt>>
  /\ UNCHANGED <<world, probe>>

\* self.update_icon(), lines 268-271: if not self.icon: return;
\* status, title = self._get_icon_status()
Loop234(t) ==
  /\ pc[t] = "l234"
  /\ IF icon = NoIcon
     THEN /\ pc' = [pc EXCEPT ![t] = "l235"]
          /\ UNCHANGED st
     ELSE /\ pc' = [pc EXCEPT ![t] = "l273"]
          /\ \E met \in World281, failed_conditions \in World284 :
               st' = [st EXCEPT ![t] =
                        _get_icon_status(running, met, failed_conditions)]
  /\ tick' = [tick EXCEPT ![t] = NoTick]
  /\ UNCHANGED <<running, thread, icon, iconStops, nThreads, stopped,
                 sleepFresh, recentPress, uiPc, uiOp, uiNoop, uiSt>>
  /\ UNCHANGED <<world, probe>>

\* update_icon, lines 273-275: self.icon.icon / .title / .menu = ...
Loop273(t) ==
  /\ pc[t] = "l273"
  /\ icon' = st[t]
  /\ st' = [st EXCEPT ![t] = NoIcon]
  /\ pc' = [pc EXCEPT ![t] = "l235"]
  /\ UNCHANGED <<running, thread, iconStops, nThreads, tick, stopped,
                 sleepFresh, recentPress, uiPc, uiOp, uiNoop, uiSt>>
  /\ UNCHANGED <<world, probe>>

\* time.sleep(UPDATE_PERIOD) begins.
Loop235(t) ==
  /\ pc[t] = "l235"
  /\ pc' = [pc EXCEPT ![t] = "sleeping"]
  /\ sleepFresh' = [sleepFresh EXCEPT ![t] = TRUE]
  /\ UNCHANGED <<running, thread, icon, iconStops, nThreads, st, tick,
                 stopped, recentPress, uiPc, uiOp, uiNoop, uiSt>>
  /\ UNCHANGED <<world, probe>>

\* Wake for a loop body that runs once: after the sleep the function returns.
WakeAndReturn(t) ==
  /\ pc[t] = "sleeping"
  /\ pc' = [pc EXCEPT ![t] = "done"]
  /\ recentPress' = IF sleepFresh[t] THEN FALSE ELSE recentPress
  /\ sleepFresh' = [sleepFresh EXCEPT ![t] = FALSE]
  /\ stopped' = [stopped EXCEPT ![t] = "no"]
  /\ UNCHANGED <<running, thread, icon, iconStops, nThreads, st, tick,
                 uiPc, uiOp, uiNoop, uiSt>>
  /\ UNCHANGED <<world, probe>>

\* time.sleep(UPDATE_PERIOD) returns, one update period after it began.
Wake(t) ==
  /\ pc[t] = "sleeping"
  /\ pc' = [pc EXCEPT ![t] = "l224"]
  /\ recentPress' = IF sleepFresh[t] THEN FALSE ELSE recentPress
  /\ sleepFresh' = [sleepFresh EXCEPT ![t] = FALSE]
  /\ stopped' = [stopped EXCEPT ![t] = IF @ = "stop" THEN "slept" ELSE @]
  /\ UNCHANGED <<running, thread, icon, iconStops, nThreads, st, tick,
                 uiPc, uiOp, uiNoop, uiSt>>
  /\ UNCHANGED <<world, probe>>

\* ------------------------------------------------- the UI thread's handlers
\* run(): self.icon = pystray.Icon(... "stopped" ...); self.icon.run().  The
\* menu, and with it every handler below, exists from here on.
Run ==
  /\ uiPc = "init"
  /\ icon' = StatusStopped
  /\ uiPc' = "idle"
  /\ UNCHANGED <<running, thread, iconStops, nThreads, pc, st, tick,
                 stopped, sleepFresh, recentPress, uiOp, uiNoop, uiSt>>
  /\ UNCHANGED <<world, probe>>

\* The return of update_icon on the UI thread: back to the menu, or on to
\* line 305 of quit_app.
AfterStop == IF uiOp = "quit" THEN "q305" ELSE "idle"

\* The menu invokes start_keep_alive.  A start that takes effect needs a
\* Thread the bound still allows.
StartCall ==
  /\ uiPc = "idle"
  /\ running \/ nThreads < MaxThreads
  /\ uiPc' = "s250"
  /\ uiOp' = "start"
  /\ uiNoop' = FALSE
  /\ UNCHANGED <<running, thread, icon, iconStops, nThreads, pc, st, tick,
                 stopped, sleepFresh, recentPress, uiSt>>
  /\ UNCHANGED <<world, probe>>

\* start_keep_alive, lines 250-254: if not self.running: self.running = True;
\* self.thread = Thread(...); self.thread.start(); print.
Start250 ==
  /\ uiPc = "s250"
  /\ IF running
     THEN /\ uiPc' = "idle"
          /\ uiNoop' = TRUE
          /\ UNCHANGED <<running, thread, nThreads, pc, recentPress>>
     ELSE /\ running' = TRUE
          /\ nThreads' = nThreads + 1
          /\ thread' = nThreads + 1
          /\ pc' = [pc EXCEPT ![nThreads + 1] = "l224"]
          /\ recentPress' = FALSE
          /\ uiPc' = "i268"
          /\ UNCHANGED uiNoop
  /\ UNCHANGED <<icon, iconStops, st, tick, stopped, sleepFresh, uiOp, uiSt>>
  /\ UNCHANGED <<world, probe>>

\* The menu invokes stop_keep_alive.
StopCall ==
  /\ uiPc = "idle"
  /\ uiPc' = "s259"
  /\ uiOp' = "stop"
  /\ uiNoop' = FALSE
  /\ UNCHANGED <<running, thread, icon, iconStops, nThreads, pc, st, tick,
                 stopped, sleepFresh, recentPress, uiSt>>
  /\ UNCHANGED <<world, probe>>

\* Stop259 without its test of self.running: the body runs on every call.
Stop259Unguarded ==
  /\ uiPc = "s259"
  /\ running' = FALSE
  /\ stopped' = [t \in Threads |-> IF Alive(t) THEN "stop" ELSE stopped[t]]
  /\ uiPc' = "j261"
  /\ UNCHANGED <<thread, icon, iconStops, nThreads, pc, st, tick,
                 sleepFresh, recentPress, uiOp, uiNoop, uiSt>>
  /\ UNCHANGED <<world, probe>>

\* stop_keep_alive, lines 259-260: if self.running: self.running = False
Stop259 ==
  /\ uiPc = "s259"
  /\ IF running
     THEN /\ running' = FALSE
          /\ stopped' = [t \in Threads |->
                           IF Alive(t) THEN "stop" ELSE stopped[t]]
          /\ uiPc' = "j261"
          /\ UNCHANGED uiNoop
     ELSE /\ uiPc' = AfterStop
          /\ uiNoop' = TRUE
          /\ UNCHANGED <<running, stopped>>
  /\ UNCHANGED <<thread, icon, iconStops, nThreads, pc, st, tick,
                 sleepFresh, recentPress, uiOp, uiSt>>
  /\ UNCHANGED <<world, probe>>

\* Join261 with join() in place of join(timeout=1): it returns only when the
\* stored thread has finished.
Join261NoTimeout ==
  /\ uiPc = "j261"
  /\ thread = 0 \/ ~Alive(thread)
  /\ uiPc' = "i268"
  /\ UNCHANGED <<running, thread, icon, iconStops, nThreads, pc, st, tick,
                 stopped, sleepFresh, recentPress, uiOp, uiNoop, uiSt>>
  /\ UNCHANGED <<world, probe>>

\* stop_keep_alive, lines 261-263: if self.thread: self.thread.join(timeout=1);
\* print.  The join returns when the stored thread has finished or when the
\* timeout has passed, whichever is first: nothing is left of which it was.
Join261 ==
  /\ uiPc = "j261"
  /\ uiPc' = "i268"
  /\ UNCHANGED <<running, thread, icon, iconStops, nThreads, pc, st, tick,
                 stopped, sleepFresh, recentPress, uiOp, uiNoop, uiSt>>
  /\ UNCHANGED <<world, probe>>

\* update_icon on the UI thread (lines 255, 264), lines 268-271:
\* if not self.icon: return; status, title = self._get_icon_status()
Ui268 ==
  /\ uiPc = "i268"
  /\ IF icon = NoIcon
     THEN /\ uiPc' = AfterStop
          /\ UNCHANGED uiSt
     ELSE /\ uiPc' = "i273"
          /\ \E met \in World281, failed_conditions \in World284 :
               uiSt' = _get_icon_status(running, met, failed_conditions)
  /\ UNCHANGED <<running, thread, icon, iconStops, nThreads, pc, st, tick,
                 stopped, sleepFresh, recentPress, uiOp, uiNoop>>
  /\ UNCHANGED <<world, probe>>

\* update_icon, lines 273-275, on the UI thread
Ui273 ==
  /\ uiPc = "i273"
  /\ icon' = uiSt
  /\ uiSt' = NoIcon
  /\ uiPc' = AfterStop
  /\ UNCHANGED <<running, thread, iconStops, nThreads, pc, st, tick,
                 stopped, sleepFresh, recentPress, uiOp, uiNoop>>
  /\ UNCHANGED <<world, probe>>

\* QuitCall without line 304: quit_app goes straight to self.icon.stop().
QuitCallNoStop ==
  /\ uiPc = "idle"
  /\ uiPc' = "q305"
  /\ uiOp' = "quit"
  /\ uiNoop' = FALSE
  /\ UNCHANGED <<running, thread, icon, iconStops, nThreads, pc, st, tick,
                 stopped, sleepFresh, recentPress, uiSt>>
  /\ UNCHANGED <<world, probe>>

\* The menu invokes quit_app; line 304: self.stop_keep_alive()
QuitCall ==
  /\ uiPc = "idle"
  /\ uiPc' = "s259"
  /\ uiOp' = "quit"
  /\ uiNoop' = FALSE
  /\ UNCHANGED <<running, thread, icon, iconStops, nThreads, pc, st, tick,
                 stopped, sleepFresh, recentPress, uiSt>>
  /\ UNCHANGED <<world, probe>>

\* quit_app, lines 305-306: if self.icon: self.icon.stop().  The tray's loop
\* ends: no handler is invoked again.
Quit305 ==
  /\ uiPc = "q305"
  /\ IF icon # NoIcon
     THEN iconStops' = iconStops + 1
     ELSE UNCHANGED iconStops
  /\ uiPc' = "exit"
  /\ UNCHANGED <<running, thread, icon, nThreads, pc, st, tick,
                 stopped, sleepFresh, recentPress, uiOp, uiNoop, uiSt>>
  /\ UNCHANGED <<world, probe>>

\* ------------------------------------------------------------ specification
LoopStep(t) ==
  \/ Loop224(t) \/ Loop225(t) \/ Loop229(t) \/ Loop232(t)
  \/ Loop234(t) \/ Loop273(t) \/ Loop235(t) \/ Wake(t)

Next ==
  \/ Run
  \/ StartCall \/ Start250
  \/ StopCall \/ Stop259 \/ Join261
  \/ Ui268 \/ Ui273
  \/ QuitCall \/ Quit305
  \/ \E t \in Threads : LoopStep(t)

Spec == Init /\ [][Next]_vars

\* ------------------------------------------------- a platform that settles
\* KeepAliveApp() on the laptop of FlakyPlatforms, where pyautogui.press
\* does not raise.
InitLive ==
  /\ running = FALSE
  /\ thread = 0
  /\ icon = NoIcon
  /\ iconStops = 0
  /\ nThreads = 0
  /\ pc = [t \in Threads |-> "new"]
  /\ st = [t \in Threads |-> NoIcon]
  /\ tick = [t \in Threads |-> NoTick]
  /\ stopped = [t \in Threads |-> "no"]
  /\ sleepFresh = [t \in Threads |-> FALSE]
  /\ recentPress = FALSE
  /\ uiPc = "init"
  /\ uiOp = "none"
  /\ uiNoop = FALSE
  /\ uiSt = NoIcon
  /\ world = "flaky"
  /\ probe = NoProbe

\* From here on the power cord stays in: all three conditions hold.
Settle ==
  /\ world = "flaky"
  /\ world' = "good"
  /\ UNCHANGED <<running, thread, icon, iconStops, nThreads, pc, st, tick,
                 stopped, sleepFresh, recentPress, uiPc, uiOp, uiNoop, uiSt,
                 probe>>

NextLive == Next \/ Settle

\* The loop thread is a started threading.Thread: the scheduler runs it, and
\* time.sleep returns.
SpecLive ==
  InitLive /\ [][NextLive]_vars /\ \A t \in Threads : WF_vars(LoopStep(t))

\* ------------------------------------------- SystemConditions called alone
appVars == <<running, thread, icon, iconStops, nThreads, pc, st, tick,
             stopped, sleepFresh, recentPress, uiPc, uiOp, uiNoop, uiSt,
             world>>

Asked(fn, x) == [fn |-> fn, in |-> x, out |-> FALSE, applied |-> FALSE]

InitCond ==
  /\ running = FALSE
  /\ thread = 0
  /\ icon = NoIcon
  /\ iconStops = 0
  /\ nThreads = 0
  /\ pc = [t \in Threads |-> "new"]
  /\ st = [t \in Threads |-> NoIcon]
  /\ tick = [t \in Threads |-> NoTick]
  /\ stopped = [t \in Threads |-> "no"]
  /\ sleepFresh = [t \in Threads |-> FALSE]
  /\ recentPress = FALSE
  /\ uiPc = "init"
  /\ uiOp = "none"
  /\ uiNoop = FALSE
  /\ uiSt = NoIcon
  /\ world = "any"
  /\ \/ \E h \in HoursOfDay : probe = Asked("is_work_hours", h)
     \/ \E b \in Batteries : probe = Asked("is_on_ac_power", b)
     \/ \E n \in Enumerations \cup Nets :
          probe = Asked("has_wired_ethernet_connection", n)
     \/ \E p \in Platforms : probe = Asked("all_conditions_met", p)

Returned(v) == [probe EXCEPT !.out = v, !.applied = TRUE]

CallIsWorkHours ==
  /\ probe.fn = "is_work_hours" /\ ~probe.applied
  /\ probe' = Returned(is_work_hours(probe.in))
  /\ UNCHANGED appVars

CallIsOnAcPower ==
  /\ probe.fn = "is_on_ac_power" /\ ~probe.applied
  /\ probe' = Returned(is_on_ac_power(probe.in))
  /\ UNCHANGED appVars

CallHasWiredEthernet ==
  /\ probe.fn = "has_wired_ethernet_connection" /\ ~probe.applied
  /\ probe' = Returned(has_wired_ethernet_connection(probe.in))
  /\ UNCHANGED appVars

CallAllConditionsMet ==
  /\ probe.fn = "all_conditions_met" /\ ~probe.applied
  /\ probe' = Returned(all_conditions_met(probe.in))
  /\ UNCHANGED appVars

NextCond ==
  \/ CallIsWorkHours
  \/ CallIsOnAcPower
  \/ CallHasWiredEthernet
  \/ CallAllConditionsMet

SpecCond == InitCond /\ [][NextCond]_vars

\* ------------------------------------------------------------------ claims
AliveThreads == {t \in Threads : Alive(t)}

\* The step of thread t that presses the key (line 229) or prints the skip
\* line (line 232).
TickOutput(t) == pc[t] \in {"l229", "l232"} /\ pc'[t] # pc[t]

\* The name get_failed_conditions gives the condition a tick was skipped for.
FailedName(cause) ==
  CASE cause = "work hours" -> "Outside Work Hours"
    [] cause = "power"      -> "On Battery"
    [] cause = "ethernet"   -> "No Ethernet"
    [] OTHER                -> "none"

Range(seq) == {seq[i] : i \in 1..Len(seq)}

\* C1: at most one keep-alive loop thread is alive at any time, whatever
\* start() and stop() calls were made.
C1_AtMostOneLoop == Cardinality(AliveThreads) <= 1

\* C2: while no handler is in progress, RunState is Running if and only if a
\* loop thread is alive (so none is alive once stop() has returned).
C2_RunningIffLoopAlive ==
  uiPc \in {"idle", "exit"} => (running <=> AliveThreads # {})

\* C3: a start() made while RunState is Running returns at once, leaves
\* RunState Running and exactly one loop alive, creates no thread, keeps the
\* stored thread and requests no refresh.
C3_SecondStart ==
  [][(uiPc = "s250" /\ running /\ uiPc' # uiPc)
       => /\ uiPc' = "idle"
          /\ running'
          /\ thread' = thread
          /\ nThreads' = nThreads
          /\ pc' = pc
          /\ Cardinality(AliveThreads) = 1]_vars

\* The part of C3 that is about the call alone: it changes nothing.
C3_SecondStartChangesNothing ==
  [][(uiPc = "s250" /\ running /\ uiPc' # uiPc)
       => /\ uiPc' = "idle"
          /\ UNCHANGED <<running, thread, icon, iconStops, nThreads, pc, st,
                         tick, stopped, sleepFresh, recentPress, uiSt>>]_vars

\* C4: a stop() made while RunState is Stopped returns at once (no join, no
\* refresh) and leaves RunState, the stored thread, the loop threads and the
\* icon as they were.
C4_StopWhenStopped ==
  [][(uiPc = "s259" /\ ~running /\ uiPc' # uiPc)
       => /\ uiPc' = AfterStop
          /\ UNCHANGED <<running, thread, icon, iconStops, nThreads, pc, st,
                         tick, stopped, sleepFresh, recentPress, uiSt>>]_vars

\* A stop() returned to the menu having found RunState Stopped.
C4_Witness ==
  uiPc = "idle" /\ uiOp = "stop" /\ uiNoop /\ ~running /\ nThreads > 0

\* C5, within a tick: one call of simulate_key_press if line 228 found all
\* three conditions met, none otherwise.
C5_PerTick ==
  \A t \in Threads :
    pc[t] \in {"l234", "dead"} /\ tick[t].open
      => tick[t].presses = (IF tick[t].cause = "met" THEN 1 ELSE 0)

\* C5, across ticks: no key is pressed less than one update period after the
\* previous press of the same run.
C5_PerPeriod ==
  [][\A t \in Threads :
       tick'[t].presses > tick[t].presses => ~recentPress]_vars

\* C5: exactly one key-simulation call in a tick whose three conditions are
\* met, none in any other tick, and so at most one call per update period.
C5_OnePressPerTick == []C5_PerTick /\ C5_PerPeriod

\* C6: the status a tick's refresh resolves to (while Running) agrees with
\* what the tick did: "active" if it pressed the key, "paused" with the
\* condition it was skipped for in the failed list otherwise.
C6_StatusAgreesWithTick ==
  [][\A t \in Threads :
       (pc[t] = "l234" /\ pc'[t] = "l273" /\ st'[t].status # "stopped")
         => IF tick[t].presses = 1
            THEN st'[t].status = "active"
            ELSE /\ st'[t].status = "paused"
                 /\ FailedName(tick[t].cause) \in Range(st'[t].failed)]_vars

\* C7: a key press or a skip line is produced only while RunState is Running.
C7_OutputOnlyWhileRunning ==
  [][\A t \in Threads : TickOutput(t) => running]_vars

\* C8: a loop thread that was alive when stop() took effect terminates after
\* at most one more sleep: once it has finished a sleep it only returns.
C8_StoppedLoopTerminates ==
  \A t \in Threads : stopped[t] = "slept" => pc[t] = "l224"

\* C9: a tick in which simulate_key_press raised leaves its thread alive.
C9_KeyErrorNotFatal ==
  \A t \in Threads : tick[t].keyErr => Alive(t)

\* C10: quit() stops first: self.icon.stop() is reached and called only with
\* RunState Stopped, it is called exactly once, and RunState is Stopped when
\* quit() has returned.
C10_QuitStopsFirst ==
  /\ uiPc \in {"q305", "exit"} => ~running
  /\ uiPc = "exit" => iconStops = 1
  /\ uiPc # "exit" => iconStops = 0

\* quit() returned after stopping a Running controller.
C10_Witness ==
  uiPc = "exit" /\ uiOp = "quit" /\ ~uiNoop /\ iconStops = 1 /\ ~running

\* The line _log_skip_reason prints for a tick skipped for `cause`.
SkipLine(cause) ==
  CASE cause = "work hours" -> "Outside work hours"
    [] cause = "power"      -> "Running on battery power"
    [] cause = "ethernet"   -> "No wired ethernet connection"
    [] OTHER                -> "none"

\* C11: a tick that skips the key press prints exactly one skip line, and the
\* line names the first unmet condition, in the order work hours, power,
\* ethernet, that made line 228 skip.
C11_SkipLogsFirstUnmet ==
  \A t \in Threads :
    (pc[t] = "l234" /\ tick[t].open /\ tick[t].cause # "met")
      => tick[t].logged = SkipLine(tick[t].cause)

\* The statuses the derivation of C12 allows while Running: "active", or
\* "paused" with the failed conditions of a platform that has some, all of
\* them and in the order work hours, power, ethernet.
RunningStatuses ==
  {StatusActive} \cup
  {StatusPaused(get_failed_conditions(p)) :
     p \in {q \in Platforms : ~all_conditions_met(q)}}

\* What C12 says of the status s resolved with self.running = run.
Derived(run, s) ==
  IF ~run THEN s = StatusStopped ELSE s \in RunningStatuses

\* C12: every status update_icon resolves, on a loop thread or on the UI
\* thread, is "stopped" when Stopped and otherwise "active" or "paused" with
\* the failed conditions listed; a "paused" status never has an empty list.
C12_StatusDerivation ==
  [][/\ \A t \in Threads :
          (pc[t] = "l234" /\ pc'[t] = "l273") => Derived(running, st'[t])
     /\ (uiPc = "i268" /\ uiPc' = "i273") => Derived(running, uiSt')]_vars
\* C15: is_on_ac_power fails open. In the tick that queried the battery, the
\* power condition is the unmet one exactly when a battery was reported with
\* its plugged-in flag false; a raising query and an absent battery count as
\* on AC power, so a tick whose battery query raised skips the key press
\* only because of the ethernet condition.
C15_PowerFailsOpen ==
  \A t \in Threads :
    (pc[t] \in {"l229", "l232"} /\ tick[t].battery # "unread") =>
      /\ (tick[t].cause = "power") <=> (tick[t].battery = "unplugged")
      /\ (tick[t].battery = "error" /\ pc[t] = "l232")
           => tick[t].cause = "ethernet"

C15_Witness ==
  \E t \in Threads : pc[t] = "l229" /\ tick[t].battery = "error"

\* C16: has_wired_ethernet_connection fails closed. A tick whose network
\* enumeration raised has the ethernet condition unmet, its thread goes on
\* to the skip branch (the error does not end the loop), and the tick
\* performs no key press.
C16_EthernetFailsClosed ==
  [][\A t \in Threads :
       /\ tick'[t].netFail =>
            /\ pc'[t] = "l232"
            /\ tick'[t].cause = "ethernet"
            /\ tick'[t].presses = 0
       /\ tick[t].netFail =>
            /\ pc'[t] \in {"l232", "l234"}
            /\ tick'[t].presses = 0
            /\ ~tick'[t].keyErr]_vars

C16_Witness ==
  \E t \in Threads : tick[t].netFail /\ pc[t] = "l232"

\* The patterns and the address rule as the contract of the ethernet check
\* words them.
SkipWords ==
  { <<"l","o">>, <<"w","i","f","i">>, <<"w","l","a","n">>, <<"w","i","r","e","l","e","s","s">>,
    <<"b","l","u","e","t","o","o","t","h">>,
    <<"l","o","c","a","l"," ","a","r","e","a"," ","c","o","n","n","e","c","t","i","o","n">> }
EthernetWords == { <<"e","t","h","e","r","n","e","t">>, <<"e","t","h">>, <<"e","n">> }

RoutableIPv4(addr) ==
  /\ addr.family = AF_INET
  /\ addr.address # <<>>
  /\ ~StartsWith(addr.address, <<"1","2","7",".">>)
  /\ ~StartsWith(addr.address, <<"1","6","9",".","2","5","4",".">>)
  /\ addr.address # <<"0",".","0",".","0",".","0">>

WiredCandidate(if) ==
  LET n == Lower(if.name)
  IN  /\ \A w \in SkipWords : ~Contains(n, w)
      /\ \E w \in EthernetWords : StartsWith(n, w) \/ Contains(n, w)
      /\ if.isup
      /\ if.inAddrs
      /\ \E k \in 1..Len(if.addrs) : RoutableIPv4(if.addrs[k])

WiredByRule(net) ==
  /\ ~net.fail
  /\ \E i \in 1..Len(net.ifs) : WiredCandidate(net.ifs[i])

Only(if) == [fail |-> FALSE, ifs |-> << if >>]

\* C13: has_wired_ethernet_connection returns true if and only if the
\* enumeration succeeds and some interface has a lowercased name with no skip
\* pattern in it and an ethernet pattern in it, is up, and has an IPv4
\* address that is not 127.*, not 169.254.* and not 0.0.0.0. wlan0 up with a
\* valid address gives false, eth0 up with 192.168.1.5 gives true, en1 up
\* with only 169.254.1.1 gives false.
C13_WiredIffRule ==
  (probe.fn = "has_wired_ethernet_connection" /\ probe.applied) =>
    /\ probe.out <=> WiredByRule(probe.in)
    /\ probe.in = Only(Iface(<<"w","l","a","n","0">>, TRUE, << Routable >>)) => ~probe.out
    /\ probe.in = Only(Eth0Up) => probe.out
    /\ probe.in = Only(En1LinkLocal) => ~probe.out

\* A skipped wireless interface with a valid address is followed by a wired
\* one that counts.
C13_Witness ==
  /\ probe.fn = "has_wired_ethernet_connection"
  /\ probe.applied
  /\ probe.in = [fail |-> FALSE,
                  ifs |-> << Iface(<<"w","l","a","n","0">>, TRUE, << Routable >>), Eth0Up >>]
  /\ probe.out

\* C14: is_work_hours is true if and only if 8 <= h < 17 for the local hour
\* h in 0..23; true at h = 8, false at h = 17.
C14_WorkHoursWindow ==
  (probe.fn = "is_work_hours" /\ probe.applied) =>
    /\ probe.out <=> (8 <= probe.in /\ probe.in < 17)
    /\ probe.in = 8 => probe.out
    /\ probe.in = 17 => ~probe.out

C14_Witness ==
  /\ probe.fn = "is_work_hours"
  /\ probe.applied
  /\ probe.in = 17
  /\ ~probe.out

InRefresh == {t \in Threads : pc[t] = "l273"}

\* C17: the icon is written only by the loop thread, no refresh runs on the
\* UI thread, and two refreshes are never in progress together.  (The
\* creation of the icon by run() is not a refresh.)
C17_IconWrittenByLoopOnly ==
  [][/\ (icon' # icon /\ uiPc # "init")
          => \E t \in Threads : pc[t] = "l273" /\ pc'[t] # "l273"
     /\ uiPc' # "i273"
     /\ Cardinality({t \in Threads : pc'[t] = "l273"}) <= 1]_vars

\* Inside stop_keep_alive after its test of self.running found it True.
InStop == uiOp \in {"stop", "quit"} /\ uiPc \in {"j261", "i268", "i273"}

UiStep == Stop259 \/ Join261 \/ Ui268 \/ Ui273

C18_NotBlocked ==
  (uiOp \in {"stop", "quit"} /\ uiPc \in {"s259", "j261", "i268", "i273"})
    => ENABLED UiStep

C18_Refresh ==
  InStop =>
    /\ ~running /\ ~running'
    /\ uiPc = "i268" /\ uiPc' = "i273" => uiSt' = StatusStopped
    /\ uiPc = "i273" /\ uiPc' # "i273" => icon' = StatusStopped

\* C18: stop_keep_alive called while running never waits for the loop thread
\* beyond the join: at each of its lines its next step can be taken whatever
\* the loop thread is doing.  From the assignment of line 260 to the return
\* self.running is False, and the refresh of line 264, made after it,
\* computes and writes the "stopped" status.
C18_StopReturnsStopped == []C18_NotBlocked /\ [][C18_Refresh]_vars

\* stop_keep_alive writes its refresh while the loop thread it stopped is
\* still inside its sleep.
C18_Witness ==
  /\ uiOp = "stop"
  /\ uiPc = "i273"
  /\ uiSt = StatusStopped
  /\ \E t \in Threads : pc[t] = "sleeping" /\ stopped[t] = "stop"

\* The state a key-simulation call of thread t leaves.
Pressed == \E t \in Threads : pc[t] = "l234" /\ tick[t].presses = 1

C19_KeepsPressing == <>[](running /\ world = "good") => []<>Pressed

C19_Retries ==
  \A t \in Threads : (pc[t] = "l232") ~> (pc[t] \in {"l225", "done"})

C19_PressInEveryTick ==
  [][\A t \in Threads :
       (world = "good" /\ pc[t] = "l225" /\ pc'[t] \notin {"l225", "done"})
         => pc'[t] = "l229"]_vars

\* C19: with the loop thread scheduled fairly, if self.running stays True and
\* the three conditions hold from some point on, on a platform where
\* simulate_key_press never raises, a key-simulation call occurs infinitely often, one in every tick
\* that evaluates the conditions from that point on; and the thread of a
\* skipped tick comes back to the evaluation of the conditions, or returns
\* because it was stopped.
C19_Liveness == C19_KeepsPressing /\ C19_Retries /\ C19_PressInEveryTick

C19_Witness ==
  /\ world = "good"
  /\ running
  /\ Pressed

====
